---------------------------- MODULE Spec2Model ----------------------------
(***************************************************************************)
(* gojsonschema, jsonLoader.go: the JSON loaders (reference, string,       *)
(* bytes, Go value, io reader/writer, raw) and decodeJSONUsingNumber.      *)
(*                                                                         *)
(* A text is a sequence of one-character strings.  A Go value (an          *)
(* interface{}) is a record tagged by its dynamic type in field t, with    *)
(* its content in field v.                                                 *)
(***************************************************************************)
EXTENDS Integers, Sequences, FiniteSets, TLC

(***************************************************************************)
(* Bounds of the model.                                                    *)
(***************************************************************************)
\* longest text enumerated over Alphabet for the string and bytes loaders
MaxLen == 3
\* longest text enumerated over Alphabet as content of a reader/writer stream
MaxStreamLen == 3
\* most bytes passed through the tee by one Read or Write call
MaxChunk == 2
\* most loaders built through a factory in one behaviour
MaxCreated == 2

(***************************************************************************)
(* Go values.                                                              *)
(***************************************************************************)
GoNil == [t |-> "nil", v |-> <<>>]
GoBool(b) == [t |-> "bool", v |-> b]
GoInt(n) == [t |-> "int", v |-> n]
GoString(s) == [t |-> "string", v |-> s]
GoBytes(s) == [t |-> "[]byte", v |-> s]
GoNumber(lit) == [t |-> "json.Number", v |-> lit]
GoFloat64(x) == [t |-> "float64", v |-> x]
GoSlice(es) == [t |-> "[]interface{}", v |-> es]
GoMap(m) == [t |-> "map[string]interface{}", v |-> m]
GoFunc == [t |-> "func", v |-> <<>>]
GoChan == [t |-> "chan", v |-> <<>>]

\* the empty map, and m with key k set to x (a later key wins)
EmptyMap == [k \in {} |-> GoNil]
MapPut(m, k, x) == [j \in (DOMAIN m) \cup {k} |-> IF j = k THEN x ELSE m[j]]

(***************************************************************************)
(* Characters.                                                             *)
(***************************************************************************)
Digits == {"0", "1", "2", "3", "4", "5", "6", "7", "8", "9"}
Digits19 == Digits \ {"0"}
WhiteSpace == {" ", "\t", "\r", "\n"}

RECURSIVE SkipSpace(_, _)
\* scanner: the first index from i on that holds no white space
SkipSpace(T, i) ==
    IF i <= Len(T) /\ T[i] \in WhiteSpace THEN SkipSpace(T, i + 1) ELSE i

\* whether the text holds a byte that is no white space (stream.go nonSpace)
nonSpace(T) == \E i \in 1..Len(T) : T[i] \notin WhiteSpace

(***************************************************************************)
(* encoding/json's scanner and decoder, as decoder.Decode uses them: one   *)
(* value is read from the front of the text.  A result is                  *)
(* [st |-> "ok", val, next] (next: the index after the value),             *)
(* [st |-> "syntax"] (a byte the grammar does not allow) or                *)
(* [st |-> "eof"] (the text ends inside the value).                        *)
(***************************************************************************)
SyntaxErr == [st |-> "syntax", val |-> GoNil, next |-> 0]
EofErr == [st |-> "eof", val |-> GoNil, next |-> 0]
Ok(val, next) == [st |-> "ok", val |-> val, next |-> next]

\* a decoder without UseNumber: a number literal becomes a float64, which
\* keeps 17 significant digits
convertNumberFloat64(lit) ==
    GoFloat64(SubSeq(lit, 1, IF Len(lit) > 17 THEN 17 ELSE Len(lit)))

\* UseNumber: a number literal is kept as a json.Number, its text unchanged
convertNumber(lit) == GoNumber(lit)

RECURSIVE NumEnd(_, _, _)
\* the number automaton (stateNeg, state0, state1, stateDot, stateDot0,
\* stateE, stateESign, stateE0): the index after the literal, 0 on a syntax
\* error, -1 when the text ends where the literal cannot end
NumEnd(T, i, s) ==
    LET end == i > Len(T)
        c == T[i]
        accepting == s \in {"0", "1", "dot0", "e0"}
    IN  IF end THEN (IF accepting THEN i ELSE -1)
        ELSE CASE s = "neg" ->
                    IF c = "0" THEN NumEnd(T, i + 1, "0")
                    ELSE IF c \in Digits19 THEN NumEnd(T, i + 1, "1")
                    ELSE 0
               [] s = "1" ->
                    IF c \in Digits THEN NumEnd(T, i + 1, "1")
                    ELSE NumEnd(T, i, "0")
               [] s = "0" ->
                    IF c = "." THEN NumEnd(T, i + 1, "dot")
                    ELSE IF c \in {"e", "E"} THEN NumEnd(T, i + 1, "e")
                    ELSE i
               [] s = "dot" ->
                    IF c \in Digits THEN NumEnd(T, i + 1, "dot0") ELSE 0
               [] s = "dot0" ->
                    IF c \in Digits THEN NumEnd(T, i + 1, "dot0")
                    ELSE IF c \in {"e", "E"} THEN NumEnd(T, i + 1, "e")
                    ELSE i
               [] s = "e" ->
                    IF c \in {"+", "-"} THEN NumEnd(T, i + 1, "esign")
                    ELSE NumEnd(T, i, "esign")
               [] s = "esign" ->
                    IF c \in Digits THEN NumEnd(T, i + 1, "e0") ELSE 0
               [] OTHER ->
                    IF c \in Digits THEN NumEnd(T, i + 1, "e0") ELSE i

\* a number literal starting at index i
ParseNumber(T, i) ==
    LET e == IF T[i] = "-" THEN NumEnd(T, i + 1, "neg")
             ELSE IF T[i] = "0" THEN NumEnd(T, i + 1, "0")
             ELSE NumEnd(T, i + 1, "1")
    IN  IF e = 0 THEN SyntaxErr
        ELSE IF e = -1 THEN EofErr
        ELSE Ok(convertNumber(SubSeq(T, i, e - 1)), e)

RECURSIVE StringEnd(_, _)
\* the index of the quote closing a string whose content starts at i, 0 when
\* the text ends first (texts here hold no backslash and no control byte)
StringEnd(T, i) ==
    IF i > Len(T) THEN 0
    ELSE IF T[i] = "\"" THEN i
    ELSE StringEnd(T, i + 1)

\* a string literal whose opening quote is at index i
ParseString(T, i) ==
    LET e == StringEnd(T, i + 1)
    IN  IF e = 0 THEN EofErr ELSE Ok(GoString(SubSeq(T, i + 1, e - 1)), e + 1)

RECURSIVE LiteralEnd(_, _, _, _)
\* the literal word w matched from its k-th byte at index i of the text
LiteralEnd(T, i, w, k) ==
    IF k > Len(w) THEN i
    ELSE IF i > Len(T) THEN -1
    ELSE IF T[i] = w[k] THEN LiteralEnd(T, i + 1, w, k + 1)
    ELSE 0

\* true, false or null starting at index i
ParseLiteral(T, i) ==
    LET w == IF T[i] = "t" THEN <<"t", "r", "u", "e">>
             ELSE IF T[i] = "f" THEN <<"f", "a", "l", "s", "e">>
             ELSE <<"n", "u", "l", "l">>
        val == IF T[i] = "t" THEN GoBool(TRUE)
               ELSE IF T[i] = "f" THEN GoBool(FALSE)
               ELSE GoNil
        e == LiteralEnd(T, i, w, 1)
    IN  IF e = 0 THEN SyntaxErr
        ELSE IF e = -1 THEN EofErr
        ELSE Ok(val, e)

RECURSIVE ParseValue(_, _)
RECURSIVE ParseArrayRest(_, _, _)
RECURSIVE ParseObjectRest(_, _, _)

\* the elements of an array from index i on, where a value must begin; acc
\* holds the elements read so far
ParseArrayRest(T, i, acc) ==
    LET r == ParseValue(T, i)
    IN  IF r.st # "ok" THEN r
        ELSE LET j == SkipSpace(T, r.next)
                 es == Append(acc, r.val)
             IN  IF j > Len(T) THEN EofErr
                 ELSE IF T[j] = "," THEN ParseArrayRest(T, j + 1, es)
                 ELSE IF T[j] = "]" THEN Ok(GoSlice(es), j + 1)
                 ELSE SyntaxErr

\* the members of an object from index i on, where a key must begin; acc
\* holds the members read so far
ParseObjectRest(T, i, acc) ==
    LET j == SkipSpace(T, i)
    IN  IF j > Len(T) THEN EofErr
        ELSE IF T[j] # "\"" THEN SyntaxErr
        ELSE LET key == ParseString(T, j)
             IN  IF key.st # "ok" THEN key
                 ELSE LET c == SkipSpace(T, key.next)
                      IN  IF c > Len(T) THEN EofErr
                          ELSE IF T[c] # ":" THEN SyntaxErr
                          ELSE LET r == ParseValue(T, c + 1)
                               IN  IF r.st # "ok" THEN r
                                   ELSE LET d == SkipSpace(T, r.next)
                                            m == MapPut(acc, key.val.v, r.val)
                                        IN  IF d > Len(T) THEN EofErr
                                            ELSE IF T[d] = "," THEN ParseObjectRest(T, d + 1, m)
                                            ELSE IF T[d] = "}" THEN Ok(GoMap(m), d + 1)
                                            ELSE SyntaxErr

\* one JSON value from index i on, leading white space skipped
ParseValue(T, i) ==
    LET j == SkipSpace(T, i)
    IN  IF j > Len(T) THEN EofErr
        ELSE LET c == T[j]
             IN  IF c = "{" THEN
                      LET k == SkipSpace(T, j + 1)
                      IN  IF k <= Len(T) /\ T[k] = "}" THEN Ok(GoMap(EmptyMap), k + 1)
                          ELSE ParseObjectRest(T, j + 1, EmptyMap)
                 ELSE IF c = "[" THEN
                      LET k == SkipSpace(T, j + 1)
                      IN  IF k <= Len(T) /\ T[k] = "]" THEN Ok(GoSlice(<<>>), k + 1)
                          ELSE ParseArrayRest(T, j + 1, <<>>)
                 ELSE IF c = "\"" THEN ParseString(T, j)
                 ELSE IF c = "-" \/ c \in Digits THEN ParseNumber(T, j)
                 ELSE IF c \in {"t", "f", "n"} THEN ParseLiteral(T, j)
                 ELSE SyntaxErr

(***************************************************************************)
(* decodeJSONUsingNumber(r): a new decoder with UseNumber reads one value  *)
(* from the reader.  The decoder fills its own buffer from the reader, at  *)
(* least 512 bytes at a time, until the value is complete or the reader is *)
(* at its end; the texts of this model are shorter, so the first Read      *)
(* takes every byte the reader holds.  Bytes after the value stay in the   *)
(* decoder's buffer, which is dropped with the decoder.                    *)
(* Result: the document, the error, and what the reader still holds.       *)
(***************************************************************************)
decodeJSONUsingNumber(r) ==
    LET p == ParseValue(r, 1)
    IN  IF p.st = "ok" THEN [val |-> p.val, err |-> "nil", rest |-> <<>>]
        ELSE IF p.st = "syntax" THEN [val |-> GoNil, err |-> "SyntaxError", rest |-> <<>>]
        ELSE IF nonSpace(r) THEN [val |-> GoNil, err |-> "ErrUnexpectedEOF", rest |-> <<>>]
        ELSE [val |-> GoNil, err |-> "EOF", rest |-> <<>>]

(***************************************************************************)
(* encoding/json's Marshal, for the Go values of this model.  Result: the  *)
(* error and the bytes (none on an error).                                 *)
(***************************************************************************)
DigitChar == <<"0", "1", "2", "3", "4", "5", "6", "7", "8", "9">>

RECURSIVE Itoa(_)
\* strconv's decimal text of a non-negative int
Itoa(n) ==
    IF n < 10 THEN <<DigitChar[n + 1]>>
    ELSE Itoa(n \div 10) \o <<DigitChar[(n % 10) + 1]>>

\* the bytes of the model in ascending byte order, for sorting map keys
ByteOrder == <<" ", "\"", ",", "0", "1", "2", ":", "[", "]", "a", "b", "x", "{", "}">>
Ord(c) == CHOOSE i \in 1..Len(ByteOrder) : ByteOrder[i] = c

RECURSIVE KeyLess(_, _)
\* byte-wise order of two keys
KeyLess(a, b) ==
    IF b = <<>> THEN FALSE
    ELSE IF a = <<>> THEN TRUE
    ELSE IF Head(a) # Head(b) THEN Ord(Head(a)) < Ord(Head(b))
    ELSE KeyLess(Tail(a), Tail(b))

RECURSIVE SortedKeys(_)
\* the keys of a set in ascending order
SortedKeys(ks) ==
    IF ks = {} THEN <<>>
    ELSE LET k == CHOOSE a \in ks : \A b \in ks \ {a} : KeyLess(a, b)
         IN  <<k>> \o SortedKeys(ks \ {k})

RECURSIVE Encode(_)
RECURSIVE EncodeSlice(_, _)
RECURSIVE EncodeMap(_, _, _)

\* the elements es from the i-th on, comma separated
EncodeSlice(es, i) ==
    IF i > Len(es) THEN [err |-> "nil", bytes |-> <<>>]
    ELSE LET e == Encode(es[i])
             r == EncodeSlice(es, i + 1)
         IN  IF e.err # "nil" THEN e
             ELSE IF r.err # "nil" THEN r
             ELSE [err |-> "nil",
                   bytes |-> (IF i > 1 THEN <<",">> ELSE <<>>) \o e.bytes \o r.bytes]

\* the members of m under the keys ks from the i-th on, comma separated
EncodeMap(m, ks, i) ==
    IF i > Len(ks) THEN [err |-> "nil", bytes |-> <<>>]
    ELSE LET e == Encode(m[ks[i]])
             r == EncodeMap(m, ks, i + 1)
         IN  IF e.err # "nil" THEN e
             ELSE IF r.err # "nil" THEN r
             ELSE [err |-> "nil",
                   bytes |-> (IF i > 1 THEN <<",">> ELSE <<>>)
                             \o <<"\"">> \o ks[i] \o <<"\"", ":">> \o e.bytes \o r.bytes]

\* the encoder, by dynamic type: a func or a chan is an unsupported type, a
\* NaN an unsupported value, and an error inside a value fails the whole
Encode(g) ==
    CASE g.t = "nil" -> [err |-> "nil", bytes |-> <<"n", "u", "l", "l">>]
      [] g.t = "bool" ->
            [err |-> "nil",
             bytes |-> IF g.v THEN <<"t", "r", "u", "e">> ELSE <<"f", "a", "l", "s", "e">>]
      [] g.t = "int" -> [err |-> "nil", bytes |-> Itoa(g.v)]
      [] g.t = "json.Number" -> [err |-> "nil", bytes |-> g.v]
      [] g.t = "string" -> [err |-> "nil", bytes |-> <<"\"">> \o g.v \o <<"\"">>]
      [] g.t = "[]interface{}" ->
            LET r == EncodeSlice(g.v, 1)
            IN  IF r.err # "nil" THEN r
                ELSE [err |-> "nil", bytes |-> <<"[">> \o r.bytes \o <<"]">>]
      [] g.t = "map[string]interface{}" ->
            LET r == EncodeMap(g.v, SortedKeys(DOMAIN g.v), 1)
            IN  IF r.err # "nil" THEN r
                ELSE [err |-> "nil", bytes |-> <<"{">> \o r.bytes \o <<"}">>]
      [] g.t = "float64" -> [err |-> "UnsupportedValueError", bytes |-> <<>>]
      [] OTHER -> [err |-> "UnsupportedTypeError", bytes |-> <<>>]

Marshal(g) ==
    LET e == Encode(g)
    IN  IF e.err # "nil" THEN [err |-> e.err, bytes |-> <<>>] ELSE e

(***************************************************************************)
(* gojsonreference.NewJsonReference: the string goes through url.Parse,    *)
(* which cuts the fragment at the first "#", takes the scheme, and         *)
(* unescapes the path and the fragment.                                    *)
(***************************************************************************)
HexDigits == Digits \cup {"a", "b", "c", "d", "e", "f", "A", "B", "C", "D", "E", "F"}
SchemeChars == {"a", "b", "h", "s", "t", "p", "f", "i", "l", "e"}

\* the index of the first c in s, 0 when there is none
IndexOf(s, c) ==
    IF \E i \in 1..Len(s) : s[i] = c
    THEN CHOOSE i \in 1..Len(s) : s[i] = c /\ \A j \in 1..(i - 1) : s[j] # c
    ELSE 0

\* a "%" not followed by two hex digits
badEscape(s) ==
    \E i \in 1..Len(s) :
        /\ s[i] = "%"
        /\ ~(i + 2 <= Len(s) /\ s[i + 1] \in HexDigits /\ s[i + 2] \in HexDigits)

\* getScheme: "scheme" when letters are followed by a colon, "missing" when
\* the string starts with a colon, "none" otherwise
getScheme(u) ==
    LET k == IndexOf(u, ":")
    IN  IF k = 1 THEN "missing"
        ELSE IF k > 1 /\ \A j \in 1..(k - 1) : u[j] \in SchemeChars THEN "scheme"
        ELSE "none"

\* without a scheme, the first path segment must hold no colon
colonInFirstSegment(u) ==
    LET k == IndexOf(u, ":")
        sl == IndexOf(u, "/")
    IN  k > 0 /\ (sl = 0 \/ k < sl)

urlParseFails(s) ==
    LET h == IndexOf(s, "#")
        u == IF h = 0 THEN s ELSE SubSeq(s, 1, h - 1)
    IN  \/ getScheme(u) = "missing"
        \/ getScheme(u) = "none" /\ colonInFirstSegment(u)
        \/ badEscape(s)

NewJsonReference(s) ==
    LET h == IndexOf(s, "#")
    IN  IF urlParseFails(s)
        THEN [err |-> "url.Error", ref |-> [parsed |-> FALSE, url |-> <<>>, fragment |-> <<>>]]
        ELSE [err |-> "nil",
              ref |-> [parsed |-> TRUE,
                       url |-> IF h = 0 THEN s ELSE SubSeq(s, 1, h - 1),
                       fragment |-> IF h = 0 THEN <<>> ELSE SubSeq(s, h + 1, Len(s))]]

(***************************************************************************)
(* The loaders.  A loader is [type, source, buf]: its struct type, its     *)
(* source field (jsonIOLoader has none) and, for jsonIOLoader, the unread  *)
(* content of its bytes.Buffer.                                            *)
(***************************************************************************)
NewReferenceLoader(source) ==
    [type |-> "jsonReferenceLoader", source |-> GoString(source), buf |-> <<>>]
NewStringLoader(source) ==
    [type |-> "jsonStringLoader", source |-> GoString(source), buf |-> <<>>]
NewBytesLoader(source) ==
    [type |-> "jsonBytesLoader", source |-> GoBytes(source), buf |-> <<>>]
NewGoLoader(source) ==
    [type |-> "jsonGoLoader", source |-> source, buf |-> <<>>]
NewRawLoader(source) ==
    [type |-> "jsonRawLoader", source |-> source, buf |-> <<>>]
\* NewReaderLoader and NewWriterLoader: the loader holds a new, empty buffer
NewIOLoader ==
    [type |-> "jsonIOLoader", source |-> GoNil, buf |-> <<>>]

\* a New that builds a string loader over its argument
FactoryNewStringLoader(source) ==
    [type |-> "jsonStringLoader", source |-> GoString(source), buf |-> <<>>]

\* the factories' New
DefaultJSONLoaderFactoryNew(source) ==
    [type |-> "jsonReferenceLoader", source |-> GoString(source), buf |-> <<>>]
FileSystemJSONLoaderFactoryNew(source) ==
    [type |-> "jsonReferenceLoader", source |-> GoString(source), buf |-> <<>>]
FactoryNew(f, source) ==
    IF f = "FileSystemJSONLoaderFactory" THEN FileSystemJSONLoaderFactoryNew(source)
    ELSE DefaultJSONLoaderFactoryNew(source)

\* JsonSource: the source field; for jsonIOLoader, buf.String()
JsonSource(l) ==
    IF l.type = "jsonIOLoader" THEN GoString(l.buf) ELSE l.source

\* JsonReference: parsed from the source for the reference loader, from "#"
\* for every other loader
referenceJsonReference(l) == NewJsonReference(JsonSource(l).v)
\* a JsonReference that parses the text of the source wherever there is one
sourceJsonReference(l) ==
    NewJsonReference(IF l.type = "jsonIOLoader" THEN l.buf
                     ELSE IF l.source.t \in {"string", "[]byte"} THEN l.source.v
                     ELSE <<"#">>)
selfJsonReference(l) == NewJsonReference(<<"#">>)
JsonReference(l) ==
    IF l.type = "jsonReferenceLoader" THEN referenceJsonReference(l)
    ELSE selfJsonReference(l)

LoaderFactory(l) ==
    IF l.type = "jsonReferenceLoader" THEN "FileSystemJSONLoaderFactory"
    ELSE "DefaultJSONLoaderFactory"

\* a reference LoadJSON that parses the location first
referenceLoadJSONParsing(l) ==
    [val |-> GoNil, err |-> referenceJsonReference(l).err, decoded |-> FALSE, buf |-> l.buf]

\* a Go LoadJSON that drops Marshal's error and decodes what it got
goLoadJSONUnchecked(l) ==
    LET d == decodeJSONUsingNumber(Marshal(JsonSource(l)).bytes)
    IN  [val |-> d.val, err |-> d.err, decoded |-> TRUE, buf |-> l.buf]

\* LoadJSON, per loader type.  Result: the document, the error, whether the
\* decoder ran, and the loader's buffer afterwards.
referenceLoadJSON(l) ==
    [val |-> GoNil, err |-> "nil", decoded |-> FALSE, buf |-> l.buf]
stringLoadJSON(l) ==
    LET d == decodeJSONUsingNumber(JsonSource(l).v)
    IN  [val |-> d.val, err |-> d.err, decoded |-> TRUE, buf |-> l.buf]
bytesLoadJSON(l) ==
    LET d == decodeJSONUsingNumber(JsonSource(l).v)
    IN  [val |-> d.val, err |-> d.err, decoded |-> TRUE, buf |-> l.buf]
goLoadJSON(l) ==
    LET m == Marshal(JsonSource(l))
    IN  IF m.err # "nil"
        THEN [val |-> GoNil, err |-> m.err, decoded |-> FALSE, buf |-> l.buf]
        ELSE LET d == decodeJSONUsingNumber(m.bytes)
             IN  [val |-> d.val, err |-> d.err, decoded |-> TRUE, buf |-> l.buf]
\* the decoder reads from l.buf itself: what it reads leaves the buffer
ioLoadJSON(l) ==
    LET d == decodeJSONUsingNumber(l.buf)
    IN  [val |-> d.val, err |-> d.err, decoded |-> TRUE, buf |-> d.rest]
rawLoadJSON(l) ==
    [val |-> l.source, err |-> "nil", decoded |-> FALSE, buf |-> l.buf]
LoadJSON(l) ==
    CASE l.type = "jsonReferenceLoader" -> referenceLoadJSON(l)
      [] l.type = "jsonStringLoader" -> stringLoadJSON(l)
      [] l.type = "jsonBytesLoader" -> bytesLoadJSON(l)
      [] l.type = "jsonGoLoader" -> goLoadJSON(l)
      [] l.type = "jsonIOLoader" -> ioLoadJSON(l)
      [] OTHER -> rawLoadJSON(l)

(***************************************************************************)
(* The inputs: the sources the constructors are given.                     *)
(***************************************************************************)
\* every text over S of length at most n
SeqsUpTo(S, n) == UNION {[1..k -> S] : k \in 0..n}

\* the bytes the enumerated texts are made of
Alphabet == {"[", "]", "{", "}", ":", ",", "1", "\"", "a", " "}

BigNumber ==
    <<"1", "2", "3", "4", "5", "6", "7", "8", "9", "0",
      "1", "2", "3", "4", "5", "6", "7", "8", "9", "0",
      "1", "2", "3", "4", "5", "6", "7", "8", "9", "0">>

\* longer texts, well-formed and not
SampleTexts ==
    { <<"{", "\"", "a", "\"", ":", "1", "}">>,
      <<"{", "\"", "a", "\"", ":", "1", "}", "x">>,
      <<"{", "\"", "a", "\"", ":", "1">>,
      <<"{", "\"", "a", "\"", ":", "1", ",", "\"", "a", "\"", ":", "2", "}">>,
      <<"{", "}">>, <<"{", "}", "}">>, <<"{">>,
      <<"[", "1", "2", ",", "-", "0", ".", "5", "e", "+", "2", "]">>,
      <<"n", "u", "l", "l">>, <<"n", "u", "l">>, <<"t", "r", "u", "e">>,
      <<"t", "r", "u", "x">>, <<"0", "1">>, <<"1", ".">>,
      BigNumber,
      <<"{", "\"", "n", "\"", ":", " ">> \o BigNumber \o <<"}">> }

Texts == SeqsUpTo(Alphabet, MaxLen) \cup SampleTexts

\* what passes through a reader or writer
StreamAlphabet == {"[", "]", ",", "1", "\"", " "}
SampleStreams ==
    { <<"{", "\"", "a", "\"", ":", "1", "}">>,
      <<"[", "1", "2", "]">>, <<"[", "1", ",", "1", "]">> }
StreamTexts == SeqsUpTo(StreamAlphabet, MaxStreamLen) \cup SampleStreams

\* location strings: ./s, the empty string, #, s#/a, http://h/s, and the
\* malformed %zz, :s and 1:s
Locations ==
    { <<".", "/", "s">>, <<>>, <<"#">>, <<"s", "#", "/", "a">>,
      <<"h", "t", "t", "p", ":", "/", "/", "h", "/", "s">>,
      <<"%", "z", "z">>, <<":", "s">>, <<"1", ":", "s">> }

\* the sources given to a factory's New
NewSources == { <<".", "/", "s">>, <<"%", "z", "z">>, <<>> }

\* Go values given to NewGoLoader
GoAtoms ==
    { GoNil, GoBool(TRUE), GoInt(0), GoInt(12), GoString(<<"a">>),
      GoFunc, GoChan, GoFloat64("NaN") }
GoSources ==
    GoAtoms
        \cup {GoSlice(es) : es \in SeqsUpTo(GoAtoms, 2)}
        \cup {GoMap(MapPut(EmptyMap, <<"a">>, g)) : g \in GoAtoms}
        \cup {GoMap(MapPut(MapPut(EmptyMap, <<"b">>, g), <<"a">>, h)) : g, h \in GoAtoms}

\* values given to NewRawLoader
RawSources ==
    { GoNil, GoNumber(<<"1">>), GoInt(1), GoString(<<"a">>),
      GoSlice(<<GoNumber(BigNumber)>>),
      GoMap(MapPut(EmptyMap, <<"a">>, GoBool(FALSE))), GoFunc }

(***************************************************************************)
(* The state.                                                              *)
(***************************************************************************)
VARIABLES
    loader,     \* the loader under use
    supplied,   \* what its constructor was given (for an io loader: the
                \* bytes of the stream)
    tee,        \* "reader" (io.TeeReader), "writer" (io.MultiWriter) or "none"
    stream,     \* the bytes that have not passed through the tee yet
    passed,     \* the bytes that have passed through the tee
    ret,        \* what the last call returned
    before,     \* the loader and the created loaders as the last call found them
    loads,      \* the results of the last two LoadJSON calls made since the
                \* last byte passed through the tee
    created     \* the loaders the factories have built

vars == <<loader, supplied, tee, stream, passed, ret, before, loads, created>>

Ret(op, val, err, decoded, arg) ==
    [op |-> op, val |-> val, err |-> err, decoded |-> decoded, arg |-> arg]

\* the last two of s with e added
LastTwo(s, e) == IF Len(s) < 2 THEN Append(s, e) ELSE <<s[2], e>>

Start(l, src, t, content) ==
    /\ loader = l
    /\ supplied = src
    /\ tee = t
    /\ stream = content
    /\ passed = <<>>
    /\ ret = Ret("new", GoNil, "nil", FALSE, <<>>)
    /\ before = [loader |-> l, created |-> <<>>]
    /\ loads = <<>>
    /\ created = <<>>

Init ==
    \/ \E s \in Locations : Start(NewReferenceLoader(s), GoString(s), "none", <<>>)
    \/ \E s \in Texts : Start(NewStringLoader(s), GoString(s), "none", <<>>)
    \/ \E s \in Texts : Start(NewBytesLoader(s), GoBytes(s), "none", <<>>)
    \/ \E g \in GoSources : Start(NewGoLoader(g), g, "none", <<>>)
    \/ \E g \in RawSources : Start(NewRawLoader(g), g, "none", <<>>)
    \/ \E s \in StreamTexts, t \in {"reader", "writer"} :
            Start(NewIOLoader, GoBytes(s), t, s)

\* one loader of every type, over the sample sources
InitFactory ==
    \/ \E s \in Locations : Start(NewReferenceLoader(s), GoString(s), "none", <<>>)
    \/ \E s \in SampleTexts : Start(NewStringLoader(s), GoString(s), "none", <<>>)
    \/ \E s \in SampleTexts : Start(NewBytesLoader(s), GoBytes(s), "none", <<>>)
    \/ \E g \in GoAtoms : Start(NewGoLoader(g), g, "none", <<>>)
    \/ \E g \in RawSources : Start(NewRawLoader(g), g, "none", <<>>)
    \/ \E s \in SampleStreams, t \in {"reader", "writer"} :
            Start(NewIOLoader, GoBytes(s), t, s)

(***************************************************************************)
(* The calls.                                                              *)
(***************************************************************************)
Snapshot == before' = [loader |-> loader, created |-> created]

CallLoadJSON ==
    LET r == LoadJSON(loader)
    IN  /\ loader' = [loader EXCEPT !.buf = r.buf]
        /\ ret' = Ret("LoadJSON", r.val, r.err, r.decoded, <<>>)
        /\ loads' = LastTwo(loads, [val |-> r.val, err |-> r.err])
        /\ Snapshot
        /\ UNCHANGED <<supplied, tee, stream, passed, created>>

CallJsonSource ==
    /\ ret' = Ret("JsonSource", JsonSource(loader), "nil", FALSE, <<>>)
    /\ Snapshot
    /\ UNCHANGED <<loader, supplied, tee, stream, passed, loads, created>>

CallJsonReference ==
    LET r == JsonReference(loader)
    IN  /\ ret' = Ret("JsonReference", r.ref, r.err, FALSE, <<>>)
        /\ Snapshot
        /\ UNCHANGED <<loader, supplied, tee, stream, passed, loads, created>>

\* loader.LoaderFactory().New(s)
CallFactoryNew ==
    /\ Len(created) < MaxCreated
    /\ \E s \in NewSources :
        LET n == FactoryNew(LoaderFactory(loader), s)
        IN  /\ ret' = Ret("New", n, "nil", FALSE, s)
            /\ created' = Append(created, n)
    /\ Snapshot
    /\ UNCHANGED <<loader, supplied, tee, stream, passed, loads>>

\* n bytes go through the tee into the loader's buffer (the wrapped reader
\* or writer hands them over without an error)
Capture(n) ==
    /\ loader.type = "jsonIOLoader"
    /\ n >= 1
    /\ n <= Len(stream)
    /\ loader' = [loader EXCEPT !.buf = loader.buf \o SubSeq(stream, 1, n)]
    /\ passed' = passed \o SubSeq(stream, 1, n)
    /\ stream' = SubSeq(stream, n + 1, Len(stream))
    /\ loads' = <<>>
    /\ Snapshot
    /\ UNCHANGED <<supplied, tee, created>>

\* a Read of the reader NewReaderLoader returns (io.TeeReader)
TeeRead ==
    /\ tee = "reader"
    /\ \E n \in (1..MaxChunk) \cup {Len(stream)} :
        /\ Capture(n)
        /\ ret' = Ret("Read", GoInt(n), "nil", FALSE, <<>>)

\* a Write to the writer NewWriterLoader returns (io.MultiWriter)
TeeWrite ==
    /\ tee = "writer"
    /\ \E n \in (1..MaxChunk) \cup {Len(stream)} :
        /\ Capture(n)
        /\ ret' = Ret("Write", GoInt(n), "nil", FALSE, <<>>)

Next ==
    \/ CallLoadJSON
    \/ CallJsonSource
    \/ CallJsonReference
    \/ TeeRead
    \/ TeeWrite

NextFactory ==
    \/ Next
    \/ CallFactoryNew

\* one loader under calls and stream transfers
Spec == Init /\ [][Next]_vars

\* the same, with loaders built through the loader's factory
SpecFactory == InitFactory /\ [][NextFactory]_vars

(***************************************************************************)
(* Notions the properties are stated with.                                 *)
(***************************************************************************)
\* a JSON text (RFC 8259): one value, with white space around it and
\* nothing else
WellFormed(T) ==
    LET p == ParseValue(T, 1)
    IN  p.st = "ok" /\ SkipSpace(T, p.next) > Len(T)

\* a text that ends inside its value
Incomplete(T) == T # <<>> /\ ParseValue(T, 1).st = "eof"

NumberChars == Digits \cup {"-", "+", ".", "e", "E"}

RECURSIVE Tokens(_, _, _, _, _)
\* the number tokens of a text, in order: outside strings, each run of
\* number bytes that starts with a digit or a minus sign
Tokens(T, i, mode, cur, acc) ==
    IF i > Len(T) THEN (IF mode = "num" THEN Append(acc, cur) ELSE acc)
    ELSE LET c == T[i]
         IN  CASE mode = "str" ->
                    Tokens(T, i + 1, IF c = "\"" THEN "out" ELSE "str", <<>>, acc)
               [] mode = "num" /\ c \in NumberChars ->
                    Tokens(T, i + 1, "num", Append(cur, c), acc)
               [] mode = "num" /\ c \notin NumberChars ->
                    Tokens(T, i, "out", <<>>, Append(acc, cur))
               [] OTHER ->
                    IF c = "\"" THEN Tokens(T, i + 1, "str", <<>>, acc)
                    ELSE IF c \in Digits \cup {"-"} THEN Tokens(T, i + 1, "num", <<c>>, acc)
                    ELSE Tokens(T, i + 1, "out", <<>>, acc)

NumberLiterals(T) == Tokens(T, 1, "out", <<>>, <<>>)

Range(f) == {f[i] : i \in DOMAIN f}

RECURSIVE TypesIn(_)
\* the dynamic types found in a value
TypesIn(g) ==
    {g.t} \cup
        (IF g.t \in {"[]interface{}", "map[string]interface{}"}
         THEN UNION {TypesIn(g.v[k]) : k \in DOMAIN g.v}
         ELSE {})

RECURSIVE NumberSet(_)
\* the texts of the json.Number values in a value
NumberSet(g) ==
    IF g.t = "json.Number" THEN {g.v}
    ELSE IF g.t \in {"[]interface{}", "map[string]interface{}"}
         THEN UNION {NumberSet(g.v[k]) : k \in DOMAIN g.v}
         ELSE {}

RECURSIVE NumberSeq(_)
RECURSIVE NumberSeqFrom(_, _)
\* the texts of the json.Number values in a value without maps, in order
NumberSeqFrom(es, i) ==
    IF i > Len(es) THEN <<>> ELSE NumberSeq(es[i]) \o NumberSeqFrom(es, i + 1)
NumberSeq(g) ==
    IF g.t = "json.Number" THEN <<g.v>>
    ELSE IF g.t = "[]interface{}" THEN NumberSeqFrom(g.v, 1)
    ELSE <<>>

RECURSIVE Unserializable(_)
\* a Go value JSON cannot represent: it holds a func, a chan or a NaN
Unserializable(g) ==
    \/ g.t \in {"func", "chan", "float64"}
    \/ /\ g.t \in {"[]interface{}", "map[string]interface{}"}
       /\ \E k \in DOMAIN g.v : Unserializable(g.v[k])

\* the location strings url.Parse rejects: a bad escape, a missing
\* scheme, a colon in the first path segment
MalformedLocations == { <<"%", "z", "z">>, <<":", "s">>, <<"1", ":", "s">> }

\* the same-document reference, "#"
SelfReference == [parsed |-> TRUE, url |-> <<>>, fragment |-> <<>>]

Result(r) == [val |-> r.val, err |-> r.err]
\* two results with equal documents, both errors or both none
SameResult(a, b) == a.val = b.val /\ (a.err = "nil") = (b.err = "nil")
DecodeErrors == {"SyntaxError", "EOF", "ErrUnexpectedEOF"}
TextLoaders == {"jsonStringLoader", "jsonBytesLoader"}

\* the text the last LoadJSON gave the decoder
DecodedText ==
    IF loader.type = "jsonIOLoader" THEN before.loader.buf ELSE loader.source.v

(***************************************************************************)
(* The properties.                                                         *)
(***************************************************************************)

\* C1: once the bytes of a JSON document B have passed through the tee of
\* an io loader, LoadJSON returns what LoadJSON of NewBytesLoader(B) returns.
C1_StreamEqualsBytes ==
    (/\ loader.type = "jsonIOLoader"
     /\ ret.op = "LoadJSON"
     /\ WellFormed(passed))
        => Result(ret) = Result(bytesLoadJSON(NewBytesLoader(passed)))

\* the part of C1 the code keeps: a LoadJSON that finds every byte that has
\* passed still in the buffer returns what the bytes loader returns
C1_FirstLoadEqualsBytes ==
    (/\ loader.type = "jsonIOLoader"
     /\ ret.op = "LoadJSON"
     /\ before.loader.buf = passed)
        => Result(ret) = Result(bytesLoadJSON(NewBytesLoader(passed)))

\* C2: for a string, bytes, Go, raw or (written to) io loader, two LoadJSON
\* calls in a row with no bytes captured in between return equal results.
C2_LoadTwiceEqual ==
    (/\ loader.type # "jsonReferenceLoader"
     /\ loader.type = "jsonIOLoader" => passed # <<>>
     /\ Len(loads) = 2)
        => SameResult(loads[1], loads[2])

\* the part of C2 the code keeps: every loader but the io loader
C2_LoadTwiceEqualNoStream ==
    (loader.type # "jsonIOLoader" /\ Len(loads) = 2) => loads[1] = loads[2]

\* C3: JsonSource returns what the constructor was given, and no LoadJSON,
\* JsonSource or JsonReference call changes what JsonSource returns.
C3_SourceUnchanged ==
    /\ (loader.type # "jsonIOLoader" /\ ret.op = "JsonSource") => ret.val = supplied
    /\ ret.op \in {"LoadJSON", "JsonSource", "JsonReference", "New"}
            => JsonSource(loader) = JsonSource(before.loader)

\* the part of C3 the code keeps: every loader but the io loader
C3_SourceUnchangedNoStream ==
    loader.type # "jsonIOLoader" =>
        /\ ret.op = "JsonSource" => ret.val = supplied
        /\ JsonSource(loader) = JsonSource(before.loader)

C5_MalformedRejected ==
    (/\ loader.type \in TextLoaders
     /\ ret.op = "LoadJSON"
     /\ ~WellFormed(loader.source.v))
        => ret.err \in DecodeErrors /\ ret.val = GoNil

\* the part of C5 the code keeps: an error comes with no document, and a
\* text whose first value is broken or unfinished is an error
C5_BrokenValueRejected ==
    (loader.type \in TextLoaders /\ ret.op = "LoadJSON")
        => /\ ret.err # "nil" => ret.val = GoNil
           /\ ParseValue(loader.source.v, 1).st # "ok" => ret.err \in DecodeErrors

\* C6: JsonReference of every loader but the reference loader succeeds with
\* "#", whatever the source and the calls before; it does not run the
\* decoder and leaves the loader, its buffer included, as it was.
C6_SelfReference ==
    (loader.type # "jsonReferenceLoader" /\ ret.op = "JsonReference")
        => /\ ret.err = "nil"
           /\ ret.val = SelfReference
           /\ ~ret.decoded
           /\ loader = before.loader

C6_Witness ==
    /\ loader.type = "jsonIOLoader"
    /\ ret.op = "JsonReference"
    /\ loader.buf = <<>>
    /\ passed # <<>>
    /\ Len(loads) = 1
    /\ loads[1].err = "ErrUnexpectedEOF"

\* C7: LoadJSON of an io loader, called when no bytes or only an
\* incomplete document have passed through the tee, returns a decode
\* failure and no document.
C7_IncompleteFails ==
    (/\ loader.type = "jsonIOLoader"
     /\ ret.op = "LoadJSON"
     /\ passed = <<>> \/ Incomplete(passed))
        => ret.err \in {"EOF", "ErrUnexpectedEOF"} /\ ret.val = GoNil

\* the part of C7 the code keeps: an empty or incomplete buffer is a decode
\* failure, and the call takes nothing from the stream
C7_IncompleteBufferFails ==
    (/\ loader.type = "jsonIOLoader"
     /\ ret.op = "LoadJSON"
     /\ before.loader.buf = <<>> \/ Incomplete(before.loader.buf))
        => ret.err \in {"EOF", "ErrUnexpectedEOF"} /\ ret.val = GoNil

\* C8: LoadJSON of a Go loader whose source JSON cannot represent returns
\* the serialization error and no document, and the decoder does not run.
C8_SerializationError ==
    (/\ loader.type = "jsonGoLoader"
     /\ ret.op = "LoadJSON"
     /\ Unserializable(loader.source))
        => /\ ret.err \in {"UnsupportedTypeError", "UnsupportedValueError"}
           /\ ret.val = GoNil
           /\ ~ret.decoded

C8_Witness ==
    /\ loader.type = "jsonGoLoader"
    /\ ret.op = "LoadJSON"
    /\ loader.source = GoSlice(<<GoInt(12), GoFunc>>)
    /\ ret.err = "UnsupportedTypeError"

\* C9: L.LoaderFactory().New(s) returns a reference loader whose JsonSource
\* is s, the same from either factory, and leaves L and the loaders
\* created before as they were.
C9_FactoryNew ==
    ret.op = "New"
        => /\ ret.val.type = "jsonReferenceLoader"
           /\ JsonSource(ret.val) = GoString(ret.arg)
           /\ ret.val = created[Len(created)]
           /\ DefaultJSONLoaderFactoryNew(ret.arg) = FileSystemJSONLoaderFactoryNew(ret.arg)
           /\ ret.val = NewReferenceLoader(ret.arg)
           /\ loader = before.loader
           /\ SubSeq(created, 1, Len(created) - 1) = before.created

C9_Witness ==
    /\ ret.op = "New"
    /\ loader.type = "jsonReferenceLoader"
    /\ Len(created) = 2
    /\ created[1] # created[2]

\* C10: LoadJSON of a reference loader returns no document and no error for
\* every source, without running the decoder; a malformed location is an
\* error of JsonReference only.
C10_ReferenceLoadJSON ==
    loader.type = "jsonReferenceLoader"
        => /\ ret.op = "LoadJSON"
                => /\ ret.val = GoNil
                   /\ ret.err = "nil"
                   /\ ~ret.decoded
                   /\ loader = before.loader
           /\ ret.op = "JsonReference"
                => (ret.err # "nil" <=> loader.source.v \in MalformedLocations)

C10_Witness ==
    /\ loader.type = "jsonReferenceLoader"
    /\ loader.source.v \in MalformedLocations
    /\ ret.op = "LoadJSON"
    /\ ret.err = "nil"
=============================================================================
